---- MODULE Spec2Model ----
(***************************************************************************)
(* The client store of miden-client (src/store/mod.rs): one sqlite file    *)
(* holding four tables, the constructor that opens and migrates it, the    *)
(* four insert operations and the whole-table read get_accounts.           *)
(*                                                                         *)
(* Widths are scaled: a u64/i64 of the program is an IdBits-bit integer    *)
(* here, and a digest's hex text carries one hex digit instead of 64.      *)
(* Texts are sequences of one-character strings.                           *)
(***************************************************************************)
EXTENDS Integers, Sequences, FiniteSets

\* ------------------------------------------------------------------ bounds
\* Width, in bits, standing for the 64 bits of u64 / i64.
IdBits == 3
\* Most rows the four tables hold together.
MaxRows == 2
\* Number of migrations in the ordered migration sequence.
NumMigrations == 2

TwoPow == 2 ^ IdBits
HalfPow == 2 ^ (IdBits - 1)
\* The field modulus p = 2^64 - 2^32 + 1, scaled to the width.
Modulus == TwoPow - 2 ^ (IdBits \div 2) + 1
U64 == 0 .. (TwoPow - 1)
I64 == (0 - HalfPow) .. (HalfPow - 1)

\* ------------------------------------------------------------- conversions
\* `id as i64` (line 79): reinterpretation of the bit pattern.
AsI64(u) == IF u >= HalfPow THEN u - TwoPow ELSE u

\* A read that clears the sign bit instead.
AsU64ClearingSign(i) == IF i < 0 THEN i + HalfPow ELSE i

\* `id as u64` (line 40): the reverse reinterpretation.
AsU64(i) == IF i < 0 THEN i + TwoPow ELSE i

\* Binding a u64 parameter (line 83): sqlite holds i64 only, and the binding
\* of a u64 is a checked conversion that fails above i64::MAX.
U64ToSql(u) == IF u < HalfPow THEN [ok |-> TRUE, v |-> u] ELSE [ok |-> FALSE, v |-> 0]

\* Reading a column as u64 (line 42): a checked conversion, failing below 0.
SqlToU64(i) == IF i >= 0 THEN [ok |-> TRUE, v |-> i] ELSE [ok |-> FALSE, v |-> 0]

\* `nonce.into()` (line 51): a field element from a u64, reduced.
FeltFromU64(u) == u % Modulus

\* `id.try_into()` (line 49): an account id is a field element.
AccountIdTryFrom(u) == IF u < Modulus THEN [ok |-> TRUE, v |-> u] ELSE [ok |-> FALSE, v |-> 0]

HexDigits == <<"0", "1", "2", "3", "4", "5", "6", "7", "8", "9", "a", "b", "c", "d", "e", "f">>

\* The digests the operations are called with.
Digests == {0, 1}

\* The hex rendering of a digest: "0x" and its digits.
ToHex(d) == <<"0", "x", HexDigits[d + 1]>>

\* serde_json::to_string of a digest (lines 69-74, 92, 112, 129): the JSON
\* string literal of its hex rendering, quotes included.
ToJson(d) == <<"\"">> \o ToHex(d) \o <<"\"">>

\* String -> digest by try_into (lines 52-60): parses the bare hex rendering.
ParseDigest(t) ==
    IF /\ Len(t) = 3
       /\ t[1] = "0"
       /\ t[2] = "x"
       /\ \E k \in 1 .. Len(HexDigits) : HexDigits[k] = t[3]
    THEN [ok |-> TRUE, v |-> (CHOOSE k \in 1 .. Len(HexDigits) : HexDigits[k] = t[3]) - 1]
    ELSE [ok |-> FALSE, v |-> 0]

\* ------------------------------------------------------------------- state
VARIABLES
    fileExists,       \* the database file at config.path exists
    version,          \* number of migrations committed to the file
    applied,          \* per migration, how many times it was committed
    handle,           \* the caller holds a Store
    accounts,         \* table accounts
    account_code,     \* table account_code
    account_storage,  \* table account_storage
    account_vault,    \* table account_vault
    inserted,         \* the accounts insert_account has stored
    created,          \* Store::new created the file (it did not exist before)
    last              \* the last call and what it returned

vars == <<fileExists, version, applied, handle, accounts, account_code,
          account_storage, account_vault, inserted, created, last>>

tables == <<accounts, account_code, account_storage, account_vault>>

Migs == 1 .. NumMigrations

Outcome(op, kind, detail, dup, ran, value, ids) ==
    [op |-> op, kind |-> kind, detail |-> detail, dup |-> dup, ran |-> ran,
     value |-> value, ids |-> ids]

Init ==
    /\ fileExists \in BOOLEAN
    /\ version \in (IF fileExists THEN 0 .. NumMigrations ELSE {0})
    /\ applied = [m \in Migs |-> IF m <= version THEN 1 ELSE 0]
    /\ handle = FALSE
    /\ accounts = {}
    /\ account_code = {}
    /\ account_storage = {}
    /\ account_vault = {}
    /\ inserted = {}
    /\ created = FALSE
    /\ last = Outcome("none", "Ok", "", FALSE, 0, <<>>, <<>>)

\* ------------------------------------------------------------- migrations
\* The pending migrations, in their fixed order, from schema version v; the
\* step failAt (0: none) fails. Returns the state the run stopped in.
RECURSIVE RunMigrations(_, _, _)
RunMigrations(v, ap, failAt) ==
    IF v = NumMigrations THEN [ok |-> TRUE, version |-> v, applied |-> ap]
    ELSE IF failAt = v + 1 THEN [ok |-> FALSE, version |-> v, applied |-> ap]
    ELSE RunMigrations(v + 1, [ap EXCEPT ![v + 1] = @ + 1], failAt)

\* A runner that restarts the sequence from the first migration.
update_to_latest_FromStart(v, ap, failAt) ==
    RunMigrations(0, ap, 0)

\* migrations::update_to_latest: the pending migrations run in one
\* transaction, committed when all succeed and rolled back otherwise.
update_to_latest(v, ap, failAt) ==
    LET r == RunMigrations(v, ap, failAt)
    IN  IF r.ok THEN r ELSE [ok |-> FALSE, version |-> v, applied |-> ap]

\* ------------------------------------------------------------- Store::new
\* Store::new that drops the result of update_to_latest.
StoreNewIgnoringMigration ==
    \E failAt \in {0} \cup ((version + 1) .. NumMigrations) :
        LET r == RunMigrations(version, applied, failAt)
        IN  /\ fileExists' = TRUE
            /\ version' = r.version
            /\ applied' = r.applied
            /\ handle' = TRUE
            /\ last' = Outcome("new", "Ok", "", FALSE, r.version - version, <<>>, <<>>)
            /\ created' = (created \/ ~fileExists)
                 /\ UNCHANGED <<tables, inserted>>

\* Store::new (lines 19-24): open (or create) the file, migrate, hand out
\* the Store; either failure is returned and no Store is.
StoreNew ==
    \E openOk \in BOOLEAN, failAt \in {0} \cup ((version + 1) .. NumMigrations) :
        IF ~openOk
        THEN /\ failAt = 0
             /\ last' = Outcome("new", "ConnectionError", "", FALSE, 0, <<>>, <<>>)
             /\ UNCHANGED <<fileExists, version, applied, handle, tables, inserted, created>>
        ELSE LET r == update_to_latest(version, applied, failAt)
             IN  /\ fileExists' = TRUE
                 /\ version' = r.version
                 /\ applied' = r.applied
                 /\ handle' = (handle \/ r.ok)
                 /\ last' = IF r.ok
                            THEN Outcome("new", "Ok", "", FALSE, r.version - version, <<>>, <<>>)
                            ELSE Outcome("new", "MigrationError", "", FALSE, 0, <<>>, <<>>)
                 /\ created' = (created \/ ~fileExists)
                 /\ UNCHANGED <<tables, inserted>>

\* ------------------------------------------------------------------ inputs
\* The identifiers the operations are called with: the largest with the high
\* bit clear, and the largest field element, whose high bit is set.
IdSamples == {HalfPow - 1, Modulus - 1}
\* The nonces (as the u64 that nonce().inner() yields): the same two edges.
NonceSamples == {HalfPow - 1, HalfPow}

Accounts ==
    [id : IdSamples, nonce : NonceSamples, code_root : Digests,
     storage_root : Digests, vault_root : Digests, committed : BOOLEAN]

\* Account code: its root and its procedure list (digests).
AccountCodes == [root : Digests, procedures : {<<>>, <<1>>}]
\* Account storage: its root and the leaves of its slot tree, (index, word).
AccountStorages == [root : Digests, leaves : {<<>>, <<<<1, 0>>>>}]
\* Account vault: its commitment and its assets.
AccountVaults == [root : Digests, assets : {<<>>, <<0>>}]

\* serde_json::to_string of a sequence whose items are rendered by ToJson.
RECURSIVE JsonItems(_)
JsonItems(s) ==
    IF s = <<>> THEN <<>>
    ELSE IF Len(s) = 1 THEN ToJson(s[1])
    ELSE ToJson(s[1]) \o <<",">> \o JsonItems(Tail(s))

JsonList(s) == <<"[">> \o JsonItems(s) \o <<"]">>

\* serde_json::to_string of the BTreeMap collected from the leaves (lines
\* 115-117): an object keyed by the decimal index.
RECURSIVE JsonEntries(_)
JsonEntries(s) ==
    IF s = <<>> THEN <<>>
    ELSE LET e == <<"\"", HexDigits[s[1][1] + 1], "\"", ":">> \o ToJson(s[1][2])
         IN  IF Len(s) = 1 THEN e ELSE e \o <<",">> \o JsonEntries(Tail(s))

JsonMap(s) == <<"{">> \o JsonEntries(s) \o <<"}">>

RowCount ==
    Cardinality(accounts) + Cardinality(account_code)
        + Cardinality(account_storage) + Cardinality(account_vault)

HasRoom == RowCount < MaxRows

\* The schema's PRIMARY KEY of accounts: the id column.
AccountsKeyTaken(id) == \E r \in accounts : r.id = id

\* The schema's PRIMARY KEY of the three component tables: the root column.
RootKeyTaken(table, root) == \E r \in table : r.root = root

\* ---------------------------------------------------------- insert_account
\* The row insert_account binds (lines 68-85).
AccountRow(a) ==
    [id |-> AsI64(a.id), code_root |-> ToJson(a.code_root),
     storage_root |-> ToJson(a.storage_root), vault_root |-> ToJson(a.vault_root),
     nonce |-> U64ToSql(a.nonce).v, committed |-> a.committed]

\* insert_account with INSERT OR REPLACE in place of INSERT.
insert_account_OrReplace ==
    /\ handle
    /\ \E a \in Accounts :
        LET dup == AccountsKeyTaken(AsI64(a.id))
        IN  /\ U64ToSql(a.nonce).ok
            /\ dup \/ HasRoom
            /\ accounts' = {r \in accounts : r.id # AsI64(a.id)} \cup {AccountRow(a)}
            /\ inserted' = inserted \cup {a}
            /\ last' = Outcome("insert_account", "Ok", "", dup, 0, <<>>, <<>>)
            /\ UNCHANGED <<fileExists, version, applied, handle, created, account_code,
                           account_storage, account_vault>>

\* insert_account (lines 67-89): one INSERT into accounts; a parameter that
\* cannot be bound or a violated primary key is a query error.
insert_account ==
    /\ handle
    /\ \E a \in Accounts :
        LET dup == AccountsKeyTaken(AsI64(a.id))
        IN  IF ~U64ToSql(a.nonce).ok
            THEN /\ last' = Outcome("insert_account", "QueryError",
                                    "ToSqlConversionFailure", dup, 0, <<>>, <<>>)
                 /\ UNCHANGED <<fileExists, version, applied, handle, tables, inserted, created>>
            ELSE IF dup
            THEN /\ last' = Outcome("insert_account", "QueryError",
                                    "ConstraintViolation", dup, 0, <<>>, <<>>)
                 /\ UNCHANGED <<fileExists, version, applied, handle, tables, inserted, created>>
            ELSE /\ HasRoom
                 /\ accounts' = accounts \cup {AccountRow(a)}
                 /\ inserted' = inserted \cup {a}
                 /\ last' = Outcome("insert_account", "Ok", "", dup, 0, <<>>, <<>>)
                 /\ UNCHANGED <<fileExists, version, applied, handle, created, account_code,
                                account_storage, account_vault>>

\* ------------------------------------------------------ insert_account_code
\* The row insert_account_code binds (lines 92-102); module is always "".
CodeRow(c) ==
    [root |-> ToJson(c.root), procedures |-> JsonList(c.procedures), module |-> <<>>]

\* insert_account_code (lines 91-106).
insert_account_code ==
    /\ handle
    /\ \E c \in AccountCodes :
        LET dup == RootKeyTaken(account_code, ToJson(c.root))
        IN  IF dup
            THEN /\ last' = Outcome("insert_account_code", "QueryError",
                                    "ConstraintViolation", dup, 0, <<>>, <<>>)
                 /\ UNCHANGED <<fileExists, version, applied, handle, tables, inserted, created>>
            ELSE /\ HasRoom
                 /\ account_code' = account_code \cup {CodeRow(c)}
                 /\ last' = Outcome("insert_account_code", "Ok", "", dup, 0, <<>>, <<>>)
                 /\ UNCHANGED <<fileExists, version, applied, handle, created, accounts,
                                account_storage, account_vault, inserted>>

\* --------------------------------------------------- insert_account_storage
\* The BTreeMap collected from the leaves (line 115): ascending by index.
RECURSIVE SortLeaves(_)
SortLeaves(s) ==
    IF Len(s) <= 1 THEN s
    ELSE LET k == CHOOSE i \in 1 .. Len(s) : \A j \in 1 .. Len(s) : s[i][1] <= s[j][1]
         IN  <<s[k]>> \o SortLeaves([i \in 1 .. (Len(s) - 1) |-> IF i < k THEN s[i] ELSE s[i + 1]])

\* The row insert_account_storage binds (lines 112-122).
StorageRow(st) ==
    [root |-> ToJson(st.root), slots |-> JsonMap(SortLeaves(st.leaves))]

\* insert_account_storage with INSERT OR IGNORE in place of INSERT.
insert_account_storage_OrIgnore ==
    /\ handle
    /\ \E st \in AccountStorages :
        LET dup == RootKeyTaken(account_storage, ToJson(st.root))
        IN  /\ dup \/ HasRoom
            /\ account_storage' = IF dup THEN account_storage
                                  ELSE account_storage \cup {StorageRow(st)}
            /\ last' = Outcome("insert_account_storage", "Ok", "", dup, 0, <<>>, <<>>)
            /\ UNCHANGED <<fileExists, version, applied, handle, created, accounts,
                           account_code, account_vault, inserted>>

\* insert_account_storage (lines 108-126).
insert_account_storage ==
    /\ handle
    /\ \E st \in AccountStorages :
        LET dup == RootKeyTaken(account_storage, ToJson(st.root))
        IN  IF dup
            THEN /\ last' = Outcome("insert_account_storage", "QueryError",
                                    "ConstraintViolation", dup, 0, <<>>, <<>>)
                 /\ UNCHANGED <<fileExists, version, applied, handle, tables, inserted, created>>
            ELSE /\ HasRoom
                 /\ account_storage' = account_storage \cup {StorageRow(st)}
                 /\ last' = Outcome("insert_account_storage", "Ok", "", dup, 0, <<>>, <<>>)
                 /\ UNCHANGED <<fileExists, version, applied, handle, created, accounts,
                                account_code, account_vault, inserted>>

\* ----------------------------------------------------- insert_account_vault
\* The row insert_account_vault binds (lines 129-138).
VaultRow(v) ==
    [root |-> ToJson(v.root), assets |-> JsonList(v.assets)]

\* insert_account_vault with INSERT OR REPLACE in place of INSERT.
insert_account_vault_OrReplace ==
    /\ handle
    /\ \E v \in AccountVaults :
        LET dup == RootKeyTaken(account_vault, ToJson(v.root))
        IN  /\ dup \/ HasRoom
            /\ account_vault' = {r \in account_vault : r.root # ToJson(v.root)}
                                    \cup {VaultRow(v)}
            /\ last' = Outcome("insert_account_vault", "Ok", "", dup, 0, <<>>, <<>>)
            /\ UNCHANGED <<fileExists, version, applied, handle, created, accounts,
                           account_code, account_storage, inserted>>

\* insert_account_vault (lines 128-142).
insert_account_vault ==
    /\ handle
    /\ \E v \in AccountVaults :
        LET dup == RootKeyTaken(account_vault, ToJson(v.root))
        IN  IF dup
            THEN /\ last' = Outcome("insert_account_vault", "QueryError",
                                    "ConstraintViolation", dup, 0, <<>>, <<>>)
                 /\ UNCHANGED <<fileExists, version, applied, handle, tables, inserted, created>>
            ELSE /\ HasRoom
                 /\ account_vault' = account_vault \cup {VaultRow(v)}
                 /\ last' = Outcome("insert_account_vault", "Ok", "", dup, 0, <<>>, <<>>)
                 /\ UNCHANGED <<fileExists, version, applied, handle, created, accounts,
                                account_code, account_storage, inserted>>

\* ------------------------------------------------------------ another writer
\* A root text no digest parses from.
BadText == <<"0", "x", "g">>
ForeignTexts == {ToHex(0), BadText}

\* The file at config.path is an ordinary sqlite file (line 20): a row of
\* accounts may come from a writer other than insert_account, with root
\* columns in the bare hex rendering or in no rendering at all.
ForeignInsert ==
    /\ fileExists
    /\ version = NumMigrations
    /\ HasRoom
    /\ \E i \in IdSamples, c \in ForeignTexts, s \in ForeignTexts, v \in ForeignTexts :
        /\ ~AccountsKeyTaken(AsI64(i))
        /\ accounts' = accounts \cup
               {[id |-> AsI64(i), code_root |-> c, storage_root |-> s,
                 vault_root |-> v, nonce |-> 0, committed |-> FALSE]}
    /\ last' = Outcome("foreign", "Ok", "", FALSE, 0, <<>>, <<>>)
    /\ UNCHANGED <<fileExists, version, applied, handle, created, account_code,
                   account_storage, account_vault, inserted>>

\* -------------------------------------------------------------- get_accounts
\* The orders a scan without ORDER BY (line 29) may visit the rows in.
Orders(S) ==
    {o \in [1 .. Cardinality(S) -> S] : \A i, j \in DOMAIN o : i # j => o[i] # o[j]}

Stub(id, nonce, vault_root, storage_root, code_root) ==
    [id |-> id, nonce |-> nonce, vault_root |-> vault_root,
     storage_root |-> storage_root, code_root |-> code_root]

\* A row loop that leaves out the rows whose roots do not decode.
RECURSIVE ScanSkippingBad(_, _, _)
ScanSkippingBad(rows, result, ids) ==
    IF rows = <<>> THEN Outcome("get_accounts", "Ok", "", FALSE, 0, result, ids)
    ELSE LET row == Head(rows)
             id == AsU64(row.id)
             nonce == SqlToU64(row.nonce)
             aid == AccountIdTryFrom(id)
             v == ParseDigest(row.vault_root)
             s == ParseDigest(row.storage_root)
             c == ParseDigest(row.code_root)
             seen == Append(ids, id)
         IN  IF ~nonce.ok
             THEN Outcome("get_accounts", "QueryError", "FromSqlConversionFailure",
                          FALSE, 0, <<>>, seen)
             ELSE IF ~aid.ok
             THEN Outcome("get_accounts", "Panic", "", FALSE, 0, <<>>, seen)
             ELSE IF ~v.ok \/ ~s.ok \/ ~c.ok
             THEN ScanSkippingBad(Tail(rows), result, seen)
             ELSE ScanSkippingBad(Tail(rows),
                      Append(result, Stub(aid.v, FeltFromU64(nonce.v), v.v, s.v, c.v)), seen)

\* The row loop (lines 34-62): per row, the id cast, the nonce read, the id
\* conversion (which panics), then the three root conversions in the order
\* vault, storage, code; the first failure ends the call. ids collects the
\* value of the local id (line 40) of every row visited.
RECURSIVE Scan(_, _, _)
Scan(rows, result, ids) ==
    IF rows = <<>> THEN Outcome("get_accounts", "Ok", "", FALSE, 0, result, ids)
    ELSE LET row == Head(rows)
             id == AsU64(row.id)
             nonce == SqlToU64(row.nonce)
             aid == AccountIdTryFrom(id)
             v == ParseDigest(row.vault_root)
             s == ParseDigest(row.storage_root)
             c == ParseDigest(row.code_root)
             seen == Append(ids, id)
         IN  IF ~nonce.ok
             THEN Outcome("get_accounts", "QueryError", "FromSqlConversionFailure",
                          FALSE, 0, <<>>, seen)
             ELSE IF ~aid.ok
             THEN Outcome("get_accounts", "Panic", "", FALSE, 0, <<>>, seen)
             ELSE IF ~v.ok \/ ~s.ok \/ ~c.ok
             THEN Outcome("get_accounts", "DataDeserializationError", "",
                          FALSE, 0, <<>>, seen)
             ELSE Scan(Tail(rows),
                      Append(result, Stub(aid.v, FeltFromU64(nonce.v), v.v, s.v, c.v)), seen)

\* get_accounts reading with a one-row query, an error when no row exists.
get_accounts_NoRowsIsError ==
    /\ handle
    /\ \E o \in Orders(accounts) :
        last' = IF accounts = {}
                THEN Outcome("get_accounts", "QueryError", "QueryReturnedNoRows",
                             FALSE, 0, <<>>, <<>>)
                ELSE Scan(o, <<>>, <<>>)
    /\ UNCHANGED <<fileExists, version, applied, handle, tables, inserted, created>>

\* get_accounts (lines 26-65): reads, writes nothing.
get_accounts ==
    /\ handle
    /\ \E o \in Orders(accounts) : last' = Scan(o, <<>>, <<>>)
    /\ UNCHANGED <<fileExists, version, applied, handle, tables, inserted, created>>

\* ------------------------------------------------------------- specification
Next ==
    \/ StoreNew
    \/ insert_account
    \/ insert_account_code
    \/ insert_account_storage
    \/ insert_account_vault
    \/ get_accounts
    \/ ForeignInsert

Spec == Init /\ [][Next]_vars

\* ------------------------------------------------------------------- claims
InsertOps ==
    {"insert_account", "insert_account_code", "insert_account_storage",
     "insert_account_vault"}

\* Every row of accounts was written by insert_account.
ApiRowsOnly == Cardinality(accounts) = Cardinality(inserted)

\* A row one of whose root columns does not decode into a digest.
Malformed(r) ==
    \/ ~ParseDigest(r.vault_root).ok
    \/ ~ParseDigest(r.storage_root).ok
    \/ ~ParseDigest(r.code_root).ok

\* C1: account round trip. When every row of accounts was written by a
\* successful insert_account, get_accounts succeeds and returns, for each
\* inserted account, a summary with that account's id, nonce, vault
\* commitment, storage root and code root.
C1_AccountRoundTrip ==
    (last.op = "get_accounts" /\ ApiRowsOnly) =>
        /\ last.kind = "Ok"
        /\ \A a \in inserted : \E i \in 1 .. Len(last.value) :
               last.value[i] = Stub(a.id, a.nonce, a.vault_root, a.storage_root, a.code_root)

C3_NonceRoundTrip ==
    /\ (last.op = "insert_account" /\ ~last.dup) => last.kind = "Ok"
    /\ \A a \in inserted : \E r \in accounts : r.nonce = a.nonce

\* C4: uniqueness enforcement. An insert whose id (accounts) or root (the
\* component tables) is already stored fails with a query error and leaves
\* all four tables as they were; accounts never holds two rows of one id.
C4_UniquenessEnforced ==
    [][/\ (last'.op \in InsertOps /\ last'.dup) =>
              (last'.kind = "QueryError" /\ tables' = tables)
       /\ \A r, q \in accounts' : r.id = q.id => r = q
       /\ \A r, q \in account_code' : r.root = q.root => r = q
       /\ \A r, q \in account_storage' : r.root = q.root => r = q
       /\ \A r, q \in account_vault' : r.root = q.root => r = q]_vars

\* C4 witness: an insert_account of a stored id has failed on the constraint.
C4_Witness ==
    /\ last.op = "insert_account"
    /\ last.dup
    /\ last.detail = "ConstraintViolation"
    /\ accounts # {}

\* C5: malformed-row detection. When some row of accounts holds a root text
\* that does not decode, get_accounts fails with a data-deserialization
\* error and returns no summaries at all.
C5_MalformedRowDetected ==
    (last.op = "get_accounts" /\ \E r \in accounts : Malformed(r)) =>
        (last.kind = "DataDeserializationError" /\ last.value = <<>>)

\* C5 witness: get_accounts met a malformed row after a row it had decoded.
C5_Witness ==
    /\ last.op = "get_accounts"
    /\ last.kind = "DataDeserializationError"
    /\ Len(last.ids) = 2
    /\ \E r \in accounts : ~Malformed(r)

\* C6: exactly-one-row effect. A successful insert adds exactly one row to
\* its own table, keeps every row that table held and leaves the other
\* three tables unchanged.
C6_ExactlyOneRow ==
    [][/\ (last'.op = "insert_account" /\ last'.kind = "Ok") =>
              /\ accounts \subseteq accounts'
              /\ Cardinality(accounts') = Cardinality(accounts) + 1
              /\ UNCHANGED <<account_code, account_storage, account_vault>>
       /\ (last'.op = "insert_account_code" /\ last'.kind = "Ok") =>
              /\ account_code \subseteq account_code'
              /\ Cardinality(account_code') = Cardinality(account_code) + 1
              /\ UNCHANGED <<accounts, account_storage, account_vault>>
       /\ (last'.op = "insert_account_storage" /\ last'.kind = "Ok") =>
              /\ account_storage \subseteq account_storage'
              /\ Cardinality(account_storage') = Cardinality(account_storage) + 1
              /\ UNCHANGED <<accounts, account_code, account_vault>>
       /\ (last'.op = "insert_account_vault" /\ last'.kind = "Ok") =>
              /\ account_vault \subseteq account_vault'
              /\ Cardinality(account_vault') = Cardinality(account_vault) + 1
              /\ UNCHANGED <<accounts, account_code, account_storage>>]_vars

\* C6 witness: a second storage row has been inserted beside a first.
C6_Witness ==
    /\ last.op = "insert_account_storage"
    /\ last.kind = "Ok"
    /\ Cardinality(account_storage) = 2

\* C7: no half-migrated handle. A Store::new that succeeds leaves the file
\* existing and fully migrated; one that fails hands out no Store and leaves
\* the schema version as it found it; a Store is held only over a fully
\* migrated file.
C7_NoHalfMigratedHandle ==
    [][/\ last'.op = "new" =>
              /\ last'.kind = "Ok" =>
                     (fileExists' /\ version' = NumMigrations /\ handle')
              /\ last'.kind # "Ok" =>
                     (handle' = handle /\ version' = version /\ applied' = applied)
       /\ handle' => (fileExists' /\ version' = NumMigrations)]_vars

\* C7 witness: a migration step failed on an out-of-date file; no Store.
C7_Witness ==
    /\ last.op = "new"
    /\ last.kind = "MigrationError"
    /\ ~handle
    /\ version < NumMigrations

\* C8: idempotent migration. A successful Store::new commits exactly the
\* migrations not yet applied and leaves the rows alone; on a current file
\* it applies nothing and changes nothing; no migration is ever committed
\* twice.
C8_IdempotentMigration ==
    [][/\ (last'.op = "new" /\ last'.kind = "Ok") =>
              /\ version' = NumMigrations
              /\ last'.ran = NumMigrations - version
              /\ applied' = [m \in Migs |-> IF m > version THEN applied[m] + 1 ELSE applied[m]]
              /\ tables' = tables
              /\ version = NumMigrations => (last'.ran = 0 /\ applied' = applied)
       /\ (last'.op = "new" /\ version = NumMigrations) => last'.kind # "MigrationError"
       /\ \A m \in Migs : applied'[m] <= 1]_vars

\* C8 witness: a second Store::new on a current file holding rows ran no
\* migration.
C8_Witness ==
    /\ last.op = "new"
    /\ last.kind = "Ok"
    /\ last.ran = 0
    /\ handle
    /\ accounts # {}

\* C9: fresh-file bootstrap. A successful Store::new where no file existed
\* leaves the file existing, fully migrated, with four empty tables; and
\* get_accounts on an empty accounts table returns the empty sequence.
C9_FreshFileBootstrap ==
    [][/\ (last'.op = "new" /\ last'.kind = "Ok" /\ ~fileExists) =>
              /\ fileExists'
              /\ version' = NumMigrations
              /\ accounts' = {} /\ account_code' = {}
              /\ account_storage' = {} /\ account_vault' = {}
       /\ (last'.op = "get_accounts" /\ accounts = {}) =>
              (last'.kind = "Ok" /\ last'.value = <<>>)]_vars

\* C9 witness: get_accounts returned the empty sequence on a file Store::new
\* created, before any insert.
C9_Witness ==
    /\ created
    /\ last.op = "get_accounts"
    /\ last.kind = "Ok"
    /\ last.value = <<>>
    /\ RowCount = 0

\* C10: append-only. No step removes or alters a row of any table, and
\* get_accounts and every failed insert leave the four tables as they were.
C10_AppendOnly ==
    [][/\ accounts \subseteq accounts'
       /\ account_code \subseteq account_code'
       /\ account_storage \subseteq account_storage'
       /\ account_vault \subseteq account_vault'
       /\ (\/ last'.op = "get_accounts"
           \/ (last'.op \in InsertOps /\ last'.kind # "Ok")) => tables' = tables]_vars

\* C10 witness: a failed insert_account_vault left the stored row in place.
C10_Witness ==
    /\ last.op = "insert_account_vault"
    /\ last.kind = "QueryError"
    /\ account_vault # {}

====
